---- MODULE Spec2Model ----
(***************************************************************************)
(* debtcloset: the pyproject.toml section editor and the exclusion-list    *)
(* reconciliation of debtcloset.pyright.toml and debtcloset.ruff.toml.     *)
(*                                                                         *)
(* A Python str is a sequence of one-character strings.  Indices are       *)
(* 0-based as in the source: s[a:b] is Slice(s, a, b).  A raised           *)
(* ValueError (str.index on a missing substring) is the value ValueError.  *)
(***************************************************************************)
EXTENDS Integers, Sequences, FiniteSets, TLC

VARIABLES tool, present, file, input, dirs, required, report, pc, ignores,
          failures, run, first, log

\* tool      which integration runs: "pyright" or "ruff"
\* present   whether pyproject.toml exists under repo_root
\* file      the text persisted in pyproject.toml
\* input     the text of pyproject.toml before the first run
\* dirs      the default-ignore names that are directories under repo_root
\* required  the required_exclusions argument
\* report    the diagnostic records the external tool emits on this repository
\* pc        the position of the run of exclude
\* ignores   exclude's local `ignores`; failures: its local `failures`
\* run       1 for the first call of exclude, 2 for the call repeated after it
\* first     the text persisted when the first call returned
\* log       the saves (with the list each one persisted) and tool invocations
\*           of the current call, in order
vars == <<tool, present, file, input, dirs, required, report, pc, ignores,
          failures, run, first, log>>

-----------------------------------------------------------------------------
(* Bounds of the explored inputs *)

MaxBody == 2
MaxReq == 2
MaxDiag == 2

-----------------------------------------------------------------------------
(* Python str primitives *)

Slice(s, a, b) == SubSeq(s, a + 1, b)

index(s, pat) ==
    LET hits == {i \in 0..(Len(s) - Len(pat)) :
                    s[i + 1] = pat[1] /\ SubSeq(s, i + 1, i + Len(pat)) = pat}
    IN  IF hits = {} THEN -1 ELSE CHOOSE i \in hits : \A j \in hits : i <= j

contains(s, pat) == index(s, pat) # -1

endswith(s, c) == Len(s) > 0 /\ s[Len(s)] = c

ValueError == <<"ValueError">>

\* the characters of the modelled paths, in code-point order
Ascii == <<"\n"," ","\"","#","*",",","-",".","/","1","2","=","[","]","a","b","c","d","e","f","g","h","i","j","k","l","m","n","o","p","q","r","s","t","u","v","w","x","y","z">>

ord(c) == CHOOSE i \in 1..Len(Ascii) : Ascii[i] = c

RECURSIVE str_lt(_, _)
str_lt(a, b) ==
    IF b = <<>> THEN FALSE
    ELSE IF a = <<>> THEN TRUE
    ELSE IF a[1] # b[1] THEN ord(a[1]) < ord(b[1])
    ELSE str_lt(Tail(a), Tail(b))

RECURSIVE insert(_, _)
insert(x, s) ==
    IF s = <<>> THEN <<x>>
    ELSE IF str_lt(x, s[1]) THEN <<x>> \o s
    ELSE <<s[1]>> \o insert(x, Tail(s))

RECURSIVE sorted(_)
sorted(s) == IF s = <<>> THEN <<>> ELSE insert(s[1], sorted(Tail(s)))

RECURSIVE list(_)
list(S) == IF S = {} THEN <<>>
           ELSE LET x == CHOOSE x \in S : TRUE IN <<x>> \o list(S \ {x})

set(s) == {s[i] : i \in 1..Len(s)}

RECURSIVE join(_, _)
join(sep, lines) ==
    IF lines = <<>> THEN <<>>
    ELSE IF Len(lines) = 1 THEN lines[1]
    ELSE lines[1] \o sep \o join(sep, Tail(lines))

str_replace(s, old, new) == [i \in 1..Len(s) |-> IF s[i] = old THEN new ELSE s[i]]

-----------------------------------------------------------------------------
(* Module constants *)

ERROR == "error"
EXCLUDE == <<"e","x","c","l","u","d","e">>
HEADER == <<"[","t","o","o","l",".","p","y","r","i","g","h","t","]">>
RUFF_EXCLUDE == <<"e","x","t","e","n","d","-","e","x","c","l","u","d","e">>
RUFF_HEADER == <<"[","t","o","o","l",".","r","u","f","f","]">>
os_sep == "/"
repo_root == <<"/","r">>

-----------------------------------------------------------------------------
(* class Pyproject / class Ruff: the section of the document *)

Pyproject(content, header) ==
    IF ~contains(content, header) THEN content \o <<"\n">> \o header \o <<"\n">>
    ELSE content

where_start_pyright_section(content, header) == index(content, header)

where_end_pyright_section(content, header) ==
    LET start == where_start_pyright_section(content, header)
        n_header == Len(header)
        remainder == Slice(content, start + n_header, Len(content))
        next_section_pattern == <<"\n","[">>
    IN  IF ~contains(remainder, next_section_pattern) THEN Len(content)
        ELSE start + n_header + index(remainder, next_section_pattern)

Pyproject_call(content, header) ==
    Slice(content, where_start_pyright_section(content, header),
                   where_end_pyright_section(content, header))

ReplaceDropsTail(content, header, new_content) ==
    Pyproject(Slice(content, 0, where_start_pyright_section(content, header))
                \o new_content, header)

replace(content, header, new_content) ==
    LET start == where_start_pyright_section(content, header)
        end == where_end_pyright_section(content, header)
    IN  Pyproject(Slice(content, 0, start) \o new_content
                    \o Slice(content, end, Len(content)), header)

-----------------------------------------------------------------------------
(* class Pyright: the exclusion list inside the section text *)

Pyright(content, key) ==
    IF ~contains(content, key) THEN content \o <<"\n">> \o key \o <<" ","="," ","[","]">>
    ELSE content

start_exclude(content, key) == index(content, <<"\n">> \o key)

end_exclude(content, key) ==
    LET start == start_exclude(content, key)
        remainder == Slice(content, start, Len(content))
        next_section_pattern == <<"]">>
    IN  IF ~contains(remainder, next_section_pattern) THEN -1
        ELSE start + index(remainder, next_section_pattern) + 1

RemoveLeavesBracket(content, key) ==
    LET start == start_exclude(content, key)
        end == end_exclude(content, key)
    IN  IF start = -1 \/ end = -1 THEN ValueError
        ELSE Slice(content, 0, start) \o Slice(content, end - 1, Len(content))

Pyright_remove_exclusions(content, key) ==
    LET start == start_exclude(content, key)
        end == end_exclude(content, key)
    IN  IF start = -1 \/ end = -1 THEN ValueError
        ELSE Slice(content, 0, start) \o Slice(content, end, Len(content))

\* listwrap.align: one indented, quoted, comma-terminated line per entry
align(files) ==
    join(<<"\n">>, [i \in 1..Len(files) |-> <<" "," "," "," ","\"">> \o files[i] \o <<"\"",",">>])

AddAlwaysNewline(section, key, files) ==
    LET content == Pyright_remove_exclusions(section, key)
    IN  IF content = ValueError THEN ValueError
        ELSE IF files = <<>> THEN content
        ELSE content \o <<"\n">> \o key \o <<" ","="," ","[","\n">> \o align(files) \o <<"\n","]","\n">>

Pyright_add_exclusions(section, key, files) ==
    LET content == Pyright_remove_exclusions(section, key)
        excl_str == key \o <<" ","="," ","[","\n">> \o align(files) \o <<"\n","]","\n">>
    IN  IF content = ValueError THEN ValueError
        ELSE IF files = <<>> THEN content
        ELSE IF ~endswith(content, "\n") THEN content \o <<"\n">> \o excl_str
        ELSE content \o excl_str

-----------------------------------------------------------------------------
(* Module-level functions: load, edit the section, save.  The result is    *)
(* the text saved to pyproject.toml, or ValueError with nothing saved.     *)

edit_remove(content, header, key) ==
    LET pyproject == Pyproject(content, header)
        config == Pyright(Pyproject_call(pyproject, header), key)
        new_config == Pyright_remove_exclusions(config, key)
    IN  IF new_config = ValueError THEN ValueError
        ELSE replace(pyproject, header, new_config)

edit_add(content, header, key, files) ==
    LET pyproject == Pyproject(content, header)
        config == Pyright(Pyproject_call(pyproject, header), key)
        new_config == Pyright_add_exclusions(config, key, files)
    IN  IF new_config = ValueError THEN ValueError
        ELSE replace(pyproject, header, new_config)

remove_exclusions(content) == edit_remove(content, HEADER, EXCLUDE)

set_exclusions(content, files) == edit_add(content, HEADER, EXCLUDE, files)

ruff_remove_exclusions(content) == edit_remove(content, RUFF_HEADER, RUFF_EXCLUDE)

ruff_add_exclusions(content, files) == edit_add(content, RUFF_HEADER, RUFF_EXCLUDE, files)

default_ignored_directories == << <<".","v","e","n","v">>, <<".","t","o","x">>, <<"d","o","c","s">> >>

IgnoresAllDefaults(is_dir, required_exclusions) ==
    LET ignores_ == [i \in 1..Len(default_ignored_directories) |->
                        default_ignored_directories[i] \o <<"/","*">>]
    IN  sorted(ignores_ \o list(set(required_exclusions) \ set(ignores_)))

IgnoresUnsorted(is_dir, required_exclusions) ==
    LET existing == SelectSeq(default_ignored_directories, LAMBDA d : d \in is_dir)
        ignores_ == [i \in 1..Len(existing) |-> existing[i] \o <<"/","*">>]
    IN  ignores_ \o list(set(required_exclusions) \ set(ignores_))

compile_ignores(is_dir, required_exclusions) ==
    LET existing == SelectSeq(default_ignored_directories, LAMBDA d : d \in is_dir)
        ignores_ == [i \in 1..Len(existing) |-> existing[i] \o <<"/","*">>]
        additional_required_ignores == set(required_exclusions) \ set(ignores_)
    IN  sorted(ignores_ \o list(additional_required_ignores))

\* lines 153-158 of identify_failing_modules: the report to relative paths
failing_modules(output) ==
    LET fullpaths == {item.file : item \in {d \in output : d.severity = ERROR}}
        len_prefix == Len(repo_root) + 1
        relpaths == sorted(list({Slice(path, len_prefix, Len(path)) : path \in fullpaths}))
    IN  [i \in 1..Len(relpaths) |-> str_replace(relpaths[i], os_sep, "/")]

run_ruff(output) ==
    IF output = {} THEN <<>>
    ELSE LET fullpaths == {item.filename : item \in output}
             len_prefix == Len(repo_root) + 1
         IN  sorted(list({Slice(path, len_prefix, Len(path)) : path \in fullpaths}))

-----------------------------------------------------------------------------
(* Observation: the entries of the exclusion list a document holds, read   *)
(* from the span the codec edits ("\n<key>" to the first following "]")    *)

\* the string literals of t, in order
quoted(t) ==
    LET marks == {i \in 1..Len(t) : t[i] = "\""}
        mark(k) == CHOOSE i \in marks : Cardinality({j \in marks : j < i}) = k - 1
    IN  [k \in 1..(Cardinality(marks) \div 2) |->
            SubSeq(t, mark(2 * k - 1) + 1, mark(2 * k) - 1)]

PersistedList(content, header, key) ==
    IF ~contains(content, header) THEN <<>>
    ELSE LET section == Pyproject_call(content, header)
             start == start_exclude(section, key)
             end == end_exclude(section, key)
         IN  IF start = -1 THEN <<>>
             ELSE quoted(Slice(section, start, IF end = -1 THEN Len(section) ELSE end))

Header == IF tool = "pyright" THEN HEADER ELSE RUFF_HEADER
Key == IF tool = "pyright" THEN EXCLUDE ELSE RUFF_EXCLUDE
Listed(content) == PersistedList(content, Header, Key)
Saved(content) == <<"save", Listed(content)>>
Invoked == <<"tool">>

-----------------------------------------------------------------------------
(* Inputs.  Documents are TOML text: a section holds the exclusion key at    *)
(* most once; paths hold no quote, bracket or newline.                       *)

RECURSIVE SeqsUpTo(_, _)
SeqsUpTo(S, n) ==
    IF n = 0 THEN {<<>>}
    ELSE LET shorter == SeqsUpTo(S, n - 1)
         IN  shorter \cup {Append(q, x) : q \in shorter, x \in S}

RECURSIVE concat(_)
concat(parts) == IF parts = <<>> THEN <<>> ELSE parts[1] \o concat(Tail(parts))

Prefixes == { <<>>, <<"[","b","]","\n","r"," ","="," ","["," ","\"","p","\"",",","]","\n">>, <<"x"," ","="," ","1">> }
Suffixes == { <<>>, <<"\n","[","f","]","\n","b"," ","="," ","1","\n">> }
Fillers(key) == { <<"\n">>, <<"\n","k"," ","="," ","1">>, <<"\n","#"," ">> \o key }
KeyLines(key) == { <<>>, <<"\n">> \o key \o <<" ","="," ","[","]">>,
                   <<"\n">> \o key \o <<" ","="," ","[","\n"," "," "," "," ","\"","a",".","p","y","\"",",","\n","]">> }

\* section bodies: up to MaxBody filler lines around at most one key entry
Bodies(key) ==
    LET F == SeqsUpTo(Fillers(key), MaxBody)
    IN  {concat(t[1]) \o t[2] \o concat(t[3]) :
            t \in {u \in F \X KeyLines(key) \X F : Len(u[1]) + Len(u[3]) <= MaxBody}}

Documents(header, key) ==
    {p \o header \o b \o s : p \in Prefixes, b \in Bodies(key), s \in Suffixes}
    \cup {p \o s : p \in Prefixes, s \in Suffixes}

ListDocuments(header) ==
    { <<"[","b","]","\n","r"," ","="," ","1","\n","\n">> \o header \o <<"\n","\n","[","f","]","\n","b"," ","="," ","1","\n">>, <<"x"," ","="," ","1","\n">> }

DirNames == set(default_ignored_directories)
RequiredPool == { <<"d","o","c","s","/","*">>, <<"a",".","p","y">> }
Modules == { <<"a",".","p","y">>, <<"b",".","p","y">> }
Diagnostics ==
    {[file |-> repo_root \o <<os_sep>> \o m, severity |-> s] :
        m \in Modules, s \in {ERROR, "warning"}}
RuffDiagnostics == {[filename |-> repo_root \o <<os_sep>> \o m] : m \in Modules}
UpTo(S, n) == {T \in SUBSET S : Cardinality(T) <= n}

Start(t, p, doc, ds, req, rep) ==
    /\ tool = t /\ present = p /\ file = doc /\ input = doc
    /\ dirs = ds /\ required = req /\ report = rep
    /\ pc = "start" /\ ignores = <<>> /\ failures = <<>>
    /\ run = 1 /\ first = <<>> /\ log = <<>>

\* many documents, few list inputs
InitText ==
    \/ \E doc \in Documents(HEADER, EXCLUDE), ds \in {{}, { <<".","t","o","x">> }},
          rep \in UpTo({d \in Diagnostics : d.file = repo_root \o <<"/","a",".","p","y">> /\ d.severity = ERROR}, 1) :
          Start("pyright", TRUE, doc, ds, <<>>, rep)
    \/ \E doc \in Documents(RUFF_HEADER, RUFF_EXCLUDE),
          rep \in UpTo({d \in RuffDiagnostics : d.filename = repo_root \o <<"/","a",".","p","y">>}, 1) :
          Start("ruff", TRUE, doc, {}, <<>>, rep)

\* few documents, many list inputs
InitLists ==
    \/ \E doc \in ListDocuments(HEADER), ds \in SUBSET DirNames,
          req \in SeqsUpTo(RequiredPool, MaxReq), rep \in UpTo(Diagnostics, MaxDiag) :
          Start("pyright", TRUE, doc, ds, req, rep)
    \/ \E doc \in ListDocuments(RUFF_HEADER), rep \in UpTo(RuffDiagnostics, MaxDiag) :
          Start("ruff", TRUE, doc, {}, <<>>, rep)

\* no pyproject.toml under repo_root
InitMissing ==
    \E t \in {"pyright", "ruff"} : Start(t, FALSE, <<>>, {}, <<>>, {})

Init == InitText \/ InitLists \/ InitMissing

-----------------------------------------------------------------------------
(* debtcloset.pyright.toml.exclude, one action per persisted step *)

Raise(at) == pc' = at /\ UNCHANGED <<file, log>>

Save(content, next) ==
    IF content = ValueError THEN Raise("raised")
    ELSE file' = content /\ pc' = next /\ log' = Append(log, Saved(file'))

Exclude_baseline ==
    /\ tool = "pyright" /\ pc = "start"
    /\ IF ~present THEN Raise("notfound") ELSE Save(remove_exclusions(file), "baseline")
    /\ UNCHANGED <<tool, present, input, dirs, required, report, ignores, failures, run, first>>

Exclude_stage ==
    /\ tool = "pyright" /\ pc = "baseline"
    /\ ignores' = compile_ignores(dirs, required)
    /\ Save(set_exclusions(file, ignores'), "staged")
    /\ UNCHANGED <<tool, present, input, dirs, required, report, failures, run, first>>

ScanCleansUpOnFailure ==
    /\ tool = "pyright" /\ pc = "staged"
    /\ \E loaded \in BOOLEAN :
          IF loaded THEN pc' = "scanned" /\ log' = Append(log, Invoked) /\ file' = file
          ELSE pc' = "failed" /\ log' = Append(log, Invoked) /\ file' = remove_exclusions(file)
    /\ UNCHANGED <<tool, present, input, dirs, required, report, ignores, failures, run, first>>

Exclude_scan ==
    /\ tool = "pyright" /\ pc = "staged"
    /\ \E loaded \in BOOLEAN : pc' = IF loaded THEN "scanned" ELSE "failed"
    /\ log' = Append(log, Invoked)
    /\ UNCHANGED <<tool, present, file, input, dirs, required, report, ignores, failures, run, first>>

UnstageForgotten ==
    /\ tool = "pyright" /\ pc = "scanned"
    /\ failures' = failing_modules(report)
    /\ pc' = "unstaged"
    /\ UNCHANGED <<tool, present, file, log, input, dirs, required, report, ignores, run, first>>

Exclude_unstage ==
    /\ tool = "pyright" /\ pc = "scanned"
    /\ LET content == remove_exclusions(file)
       IN  /\ Save(content, "unstaged")
           /\ failures' = IF content = ValueError THEN failures ELSE failing_modules(report)
    /\ UNCHANGED <<tool, present, input, dirs, required, report, ignores, run, first>>

Exclude_final ==
    /\ tool = "pyright" /\ pc = "unstaged"
    /\ Save(set_exclusions(file, ignores \o failures), "done")
    /\ UNCHANGED <<tool, present, input, dirs, required, report, ignores, failures, run, first>>

-----------------------------------------------------------------------------
(* debtcloset.ruff.toml.exclude *)

Ruff_baseline ==
    /\ tool = "ruff" /\ pc = "start"
    /\ IF ~present THEN Raise("notfound") ELSE Save(ruff_remove_exclusions(file), "baseline")
    /\ UNCHANGED <<tool, present, input, dirs, required, report, ignores, failures, run, first>>

Ruff_scan ==
    /\ tool = "ruff" /\ pc = "baseline"
    /\ \E loaded \in BOOLEAN :
          IF loaded THEN pc' = "scanned" /\ failures' = run_ruff(report)
          ELSE pc' = "failed" /\ failures' = failures
    /\ log' = Append(log, Invoked)
    /\ UNCHANGED <<tool, present, file, input, dirs, required, report, ignores, run, first>>

Ruff_final ==
    /\ tool = "ruff" /\ pc = "scanned"
    /\ IF failures # <<>> THEN Save(ruff_add_exclusions(file, failures), "done")
       ELSE pc' = "done" /\ UNCHANGED <<file, log>>
    /\ UNCHANGED <<tool, present, input, dirs, required, report, ignores, failures, run, first>>

\* the caller runs exclude a second time on the same repository
Again ==
    /\ pc = "done" /\ run = 1
    /\ run' = run + 1 /\ first' = file /\ pc' = "start"
    /\ ignores' = <<>> /\ failures' = <<>> /\ log' = <<>>
    /\ UNCHANGED <<tool, present, file, input, dirs, required, report>>

Next ==
    \/ Exclude_baseline \/ Exclude_stage \/ Exclude_scan \/ Exclude_unstage \/ Exclude_final
    \/ Ruff_baseline \/ Ruff_scan \/ Ruff_final
    \/ Again

Spec == Init /\ [][Next]_vars

-----------------------------------------------------------------------------
(* Claims *)

Before(content) == Slice(content, 0, where_start_pyright_section(content, Header))
After(content) == Slice(content, where_end_pyright_section(content, Header), Len(content))
Occurrences(content, pat) ==
    Cardinality({i \in 0..(Len(content) - Len(pat)) : SubSeq(content, i + 1, i + Len(pat)) = pat})
IsSorted(s) == \A i, j \in 1..Len(s) : i < j => ~str_lt(s[j], s[i])
Count(s, x) == Cardinality({i \in 1..Len(s) : s[i] = x})
Globs == {default_ignored_directories[i] \o <<"/","*">> : i \in 1..Len(default_ignored_directories)}
Reported ==
    IF tool = "pyright"
    THEN {Slice(d.file, Len(repo_root) + 1, Len(d.file)) : d \in {e \in report : e.severity = ERROR}}
    ELSE {Slice(d.filename, Len(repo_root) + 1, Len(d.filename)) : d \in report}

\* C1: when exclude completes, the text before the first occurrence of the
\* target header and the text from the next "\n[" after it to the end of the
\* document are those of the input document; an input without the header is
\* kept whole in front of the appended section, which ends the document.
C1_FramePreserved ==
    pc = "done" =>
        IF contains(input, Header)
        THEN Before(file) = Before(input) /\ After(file) = After(input)
        ELSE Slice(file, 0, Len(input)) = input /\ After(file) = <<>>

C1_Witness ==
    /\ pc = "done" /\ contains(input, Header) /\ file # input
    /\ Before(input) # <<>> /\ After(input) # <<>> /\ Listed(file) # <<>>

\* C2 (as stated): after pyright exclude completes, the entries of the
\* persisted exclusion list are in lexicographic order.
C2_FinalListSorted ==
    (tool = "pyright" /\ pc = "done") => IsSorted(Listed(file))

\* C2 (amended): the persisted list is the resolved ignore list followed by
\* the scan's failing paths, each of the two parts in lexicographic order.
C2_IgnoresThenFailuresEachSorted ==
    (tool = "pyright" /\ pc = "done") =>
        LET listed == Listed(file)
        IN  \E k \in 0..Len(listed) :
                LET head == SubSeq(listed, 1, k)
                    tail == SubSeq(listed, k + 1, Len(listed))
                IN  /\ IsSorted(head) /\ IsSorted(tail)
                    /\ set(head) = {g \in Globs : Slice(g, 0, Len(g) - 2) \in dirs}
                                      \cup set(required)
                    /\ set(tail) = Reported
                    /\ Len(tail) = Cardinality(Reported)

C2_Witness ==
    /\ tool = "pyright" /\ pc = "done"
    /\ Len(ignores) >= 2 /\ Len(failures) >= 2 /\ ~IsSorted(Listed(file))

\* C3: after pyright exclude completes, every entry of required_exclusions is
\* in the persisted list exactly once and no entry of the list occurs twice.
C3_RequiredOnceNoDuplicates ==
    (tool = "pyright" /\ pc = "done") =>
        LET listed == Listed(file)
        IN  /\ \A x \in set(required) : Count(listed, x) = 1
            /\ \A x \in set(listed) : Count(listed, x) = 1

\* C4 (as stated): "N/*" is in the final list iff N is a directory under
\* repo_root, for each default directory name N.
C4_DefaultIffExists ==
    (tool = "pyright" /\ pc = "done") =>
        LET listed == set(Listed(file))
        IN  \A g \in Globs : g \in listed <=> Slice(g, 0, Len(g) - 2) \in dirs

\* C4 (amended): "N/*" is in the final list iff N is a directory under
\* repo_root or "N/*" is itself a required exclusion or a reported path.
C4_DefaultIffExistsOrRequired ==
    (tool = "pyright" /\ pc = "done") =>
        LET listed == set(Listed(file))
        IN  \A g \in Globs :
                g \in listed <=>
                    \/ Slice(g, 0, Len(g) - 2) \in dirs
                    \/ g \in set(required)
                    \/ g \in Reported

C4_Witness ==
    /\ tool = "pyright" /\ pc = "done" /\ required # <<>> /\ Reported # {}
    /\ <<".","t","o","x","/","*">> \in set(Listed(file)) /\ <<".","v","e","n","v","/","*">> \notin set(Listed(file))

\* C5: the document after the second of two successive runs equals the
\* document after the first.
C5_SecondRunSameDocument ==
    (run = 2 /\ pc = "done") => file = first

C5_Witness ==
    /\ run = 2 /\ pc = "done" /\ file = first /\ file # input
    /\ Listed(file) # <<>> /\ Listed(input) # <<>>

\* C6 (as stated): when the tool reports no failing file, exclude leaves the
\* configuration file identical to its input.
C6_NoFailuresByteIdentical ==
    (pc = "done" /\ Reported = {}) => file = input

\* C6 (amended): when the tool reports no failing file, no default-ignore
\* directory exists, no exclusion is required, and the input holds the target
\* header with no occurrence of the key in its section, exclude leaves the
\* file identical to its input.
C6_NoFailuresNoListByteIdentical ==
    (/\ pc = "done" /\ Reported = {}
     /\ dirs = {} /\ required = <<>>
     /\ contains(input, Header)
     /\ ~contains(Pyproject_call(input, Header), Key)) => file = input

C6_Witness ==
    /\ pc = "done" /\ Reported = {} /\ dirs = {} /\ required = <<>>
    /\ contains(input, Header) /\ ~contains(Pyproject_call(input, Header), Key)
    /\ After(input) # <<>> /\ Len(log) >= 2

\* C7: a document loaded without the target header gets the header appended
\* after exactly one blank line, and the header stays present exactly once
\* through the edits that follow.
C7_HeaderAfterOneBlankLine ==
    (/\ pc \notin {"start", "notfound"} /\ ~contains(input, Header) /\ input # <<>>) =>
        LET at == where_start_pyright_section(file, Header)
        IN  /\ Occurrences(file, Header) = 1
            /\ at >= 3
            /\ file[at] = "\n" /\ file[at - 1] = "\n" /\ file[at - 2] # "\n"

\* C8: a run of pyright exclude persists, in this order, the list removed,
\* the resolved ignore list, the list removed, the final list; the tool is
\* invoked once, between the second and the third save, with the resolved
\* ignore list in the file.
C8_StagedScanOrder ==
    LET expected == << <<"save", <<>> >>,
                       <<"save", ignores>>,
                       <<"tool">>,
                       <<"save", <<>> >>,
                       <<"save", ignores \o failures>> >>
    IN  tool = "pyright" =>
            /\ Len(log) <= Len(expected)
            /\ log = SubSeq(expected, 1, Len(log))
            /\ pc = "done" => Len(log) = 5
            /\ pc \in {"scanned", "failed"} => (Len(log) = 3 /\ Listed(file) = ignores)
            /\ Len(log) >= 2 =>
                  set(ignores) = {g \in Globs : Slice(g, 0, Len(g) - 2) \in dirs} \cup set(required)

C8_Witness ==
    /\ tool = "pyright" /\ pc = "done" /\ Len(log) = 5
    /\ ignores # <<>> /\ failures # <<>> /\ Listed(input) = <<>>

\* C9: once the key has been ensured, remove_exclusions and add_exclusions
\* never raise substring-not-found.
C9_NoSubstringError == pc # "raised"

\* C10: when the tool invocation or the loading of its report fails, the
\* file keeps the staged list (the resolved ignore list): nothing is removed,
\* restored or written after the failure.
C10_FailureLeavesStagedList ==
    (tool = "pyright" /\ pc = "failed") =>
        /\ Listed(file) = ignores
        /\ log[Len(log)] = Invoked /\ log[Len(log) - 1] = <<"save", Listed(file)>>
        /\ ~ENABLED Next

C10_Witness ==
    /\ tool = "pyright" /\ pc = "failed" /\ run = 1
    /\ ignores # <<>> /\ Listed(input) # <<>> /\ Listed(input) # ignores

====
